---------------------------- MODULE Spec2Model ----------------------------
(***************************************************************************)
(* Identity reconciliation service: the /identify handler                  *)
(* (identifyController) over the Contact table.                            *)
(*                                                                         *)
(* The Contact table is a sequence of rows; the row at index i has id i    *)
(* (SERIAL primary key, rows are never physically removed by the handler). *)
(* E-mail addresses and phone numbers are the numbers 1..NumEmails and     *)
(* 1..NumPhones; NULL (0) is the SQL NULL / JavaScript undefined.          *)
(* Timestamps are natural numbers; two rows can be created on the same     *)
(* timestamp (TIMESTAMP(3) has millisecond resolution).  updatedAt is      *)
(* written by the handler and read nowhere; the rows do not carry it.      *)
(*                                                                         *)
(* A request is served in one step (Identify), or store operation by store *)
(* operation (Start, Step), which lets the operations of two requests      *)
(* interleave and a single operation throw.                                *)
(***************************************************************************)
EXTENDS Naturals, Integers, Sequences, FiniteSets, TLC

\* ---------------------------------------------------------------- bounds
NumEmails == 2
NumPhones == 2
MaxContacts == 4
MaxTies == 1
MaxDeleted == 1
MaxWideEmails == 3
MaxWidePhones == 3
MaxWideContacts == 6
MaxCalls == 2
MaxRaceContacts == 3

\* ------------------------------------------------------------- constants
NULL == 0
EMPTY == -1        \* the empty string '' in a request body
MALFORMED == -2    \* a field value the schema rejects
PRIMARY == "PRIMARY"
SECONDARY == "SECONDARY"

Emails == 1..NumEmails
Phones == 1..NumPhones

VARIABLES
    contacts,          \* the Contact table
    now,               \* timestamp of the latest row creation
    pre,               \* the Contact table before the latest request
    body,              \* the latest request body, as sent
    req,               \* the latest request body, after validation
    res,               \* the latest HTTP response
    matchingContacts,  \* ids returned by the seed query of the latest request
    visited,           \* the visited set of the latest request's traversal
    calls              \* the invocations of the handler that run store
                       \* operation by store operation: their local state

vars == <<contacts, now, pre, body, req, res, matchingContacts, visited, calls>>

\* ------------------------------------------------------------- the store

\* One row of the Contact table.
Contact(id, email, phoneNumber, linkedId, linkPrecedence, t) ==
    [id |-> id, email |-> email, phoneNumber |-> phoneNumber,
     linkedId |-> linkedId, linkPrecedence |-> linkPrecedence,
     createdAt |-> t, deletedAt |-> NULL]

Ids(store) == 1..Len(store)

\* The orders in which the store can return rows for orderBy createdAt asc:
\* every permutation of the rows that is ascending in createdAt (the order
\* of rows with equal createdAt is not determined by the query).
RECURSIVE OrdersOf(_, _)
OrdersOf(store, S) ==
    IF S = {} THEN {<<>>}
    ELSE LET firsts == {m \in S : \A k \in S : store[m].createdAt <= store[k].createdAt}
         IN  UNION {{<<m>> \o r : r \in OrdersOf(store, S \ {m})} : m \in firsts}

RowOrders(store) == OrdersOf(store, Ids(store))

\* The number of rows created on the timestamp of an earlier row.
Ties(store) ==
    Cardinality({i \in Ids(store) :
                    \E j \in Ids(store) : j < i /\ store[j].createdAt = store[i].createdAt})

\* The rows of the store in the order ord.
Rows(store, ord) == [i \in 1..Len(store) |-> store[ord[i]]]

\* prisma.contact.create: a new row with the next id, stamped t.
Create(store, email, phoneNumber, linkedId, linkPrecedence, t) ==
    Append(store,
           Contact(Len(store) + 1, email, phoneNumber, linkedId, linkPrecedence, t))

\* prisma.contact.update({where: {id}, data: {linkPrecedence, linkedId}})
Update(store, id, linkPrecedence, linkedId) ==
    [store EXCEPT ![id] = [@ EXCEPT !.linkPrecedence = linkPrecedence,
                                    !.linkedId = linkedId]]

\* Variant of UpdateMany: every linked row is re-pointed.
UpdateManyAnyLink(store, from, to) ==
    [i \in Ids(store) |->
        IF store[i].linkedId # NULL /\ store[i].deletedAt = NULL
        THEN [store[i] EXCEPT !.linkedId = to]
        ELSE store[i]]

\* prisma.contact.updateMany({where: {linkedId: from, deletedAt: null},
\*                            data: {linkedId: to}})
UpdateMany(store, from, to) ==
    [i \in Ids(store) |->
        IF store[i].linkedId = from /\ store[i].deletedAt = NULL
        THEN [store[i] EXCEPT !.linkedId = to]
        ELSE store[i]]

\* Variant of FindMatching: the deletedAt filter is left out.
FindMatchingAnyRow(store, ord, email, phoneNumber) ==
    SelectSeq(Rows(store, ord),
              LAMBDA c : \/ (email # NULL /\ c.email = email)
                         \/ (phoneNumber # NULL /\ c.phoneNumber = phoneNumber))

\* Step 1: the seed query.
FindMatching(store, ord, email, phoneNumber) ==
    SelectSeq(Rows(store, ord),
              LAMBDA c : /\ \/ (email # NULL /\ c.email = email)
                            \/ (phoneNumber # NULL /\ c.phoneNumber = phoneNumber)
                         /\ c.deletedAt = NULL)

\* Variant of FindChildren: the rows are selected by id, not by linkedId.
FindChildrenById(store, ord, parentId) ==
    SelectSeq(Rows(store, ord),
              LAMBDA c : c.id = parentId /\ c.deletedAt = NULL)

\* Variant of FindChildren: the deletedAt filter is left out.
FindChildrenAnyRow(store, ord, parentId) ==
    SelectSeq(Rows(store, ord), LAMBDA c : c.linkedId = parentId)

\* findMany({where: {linkedId: parentId, deletedAt: null}})
FindChildren(store, ord, parentId) ==
    SelectSeq(Rows(store, ord),
              LAMBDA c : c.linkedId = parentId /\ c.deletedAt = NULL)

\* findUnique({where: {id, deletedAt: null}}): <<row>> or <<>> (null).
FindUnique(store, id) ==
    IF id \in Ids(store) /\ store[id].deletedAt = NULL THEN <<store[id]>> ELSE <<>>

\* Variant of FindByIds: the rows come in descending order.
FindByIdsDesc(store, ord, ids) ==
    LET asc == SelectSeq(Rows(store, ord), LAMBDA c : c.id \in ids /\ c.deletedAt = NULL)
    IN  [i \in DOMAIN asc |-> asc[Len(asc) + 1 - i]]

\* Step 4: findMany({where: {id: {in: ids}, deletedAt: null}, orderBy createdAt})
FindByIds(store, ord, ids) ==
    SelectSeq(Rows(store, ord), LAMBDA c : c.id \in ids /\ c.deletedAt = NULL)

\* Variant of FindComponent: the clause {id} of the OR is left out.
FindComponentChildrenOnly(store, ord, id) ==
    SelectSeq(Rows(store, ord),
              LAMBDA c : c.linkedId = id /\ c.deletedAt = NULL)

\* Step 6 reload: findMany({where: {OR: [{id}, {linkedId: id}], deletedAt: null}})
FindComponent(store, ord, id) ==
    SelectSeq(Rows(store, ord),
              LAMBDA c : (c.id = id \/ c.linkedId = id) /\ c.deletedAt = NULL)


\* ------------------------------------------------------ step 3: traversal

\* The BFS loop: queue holds the rows still to visit, seen the visited set.
RECURSIVE Traverse(_, _, _, _)
Traverse(store, ord, queue, seen) ==
    IF queue = <<>> THEN seen
    ELSE LET current == Head(queue)
             rest == Tail(queue)
         IN  IF current.id \in seen THEN Traverse(store, ord, rest, seen)
             ELSE LET seen2 == seen \cup {current.id}
                      unseen(cs) == SelectSeq(cs, LAMBDA c : c.id \notin seen2)
                  IN  IF current.linkPrecedence = PRIMARY
                      THEN Traverse(store, ord,
                                    rest \o unseen(FindChildren(store, ord, current.id)),
                                    seen2)
                      ELSE IF current.linkedId # NULL /\ current.linkedId \notin seen2
                      THEN LET primary == FindUnique(store, current.linkedId)
                           IN  IF primary # <<>>
                               THEN Traverse(store, ord,
                                        rest \o primary
                                             \o unseen(FindChildren(store, ord, current.linkedId)),
                                        seen2)
                               ELSE Traverse(store, ord, rest, seen2)
                      ELSE Traverse(store, ord, rest, seen2)

\* relatedContactIds after the loop, from the seed rows.
RelatedContactIds(store, ord, matching) == Traverse(store, ord, matching, {})

\* ------------------------------------------------------ step 5: gap check

IsPrimary(c) == c.linkPrecedence = PRIMARY
IsSecondary(c) == c.linkPrecedence = SECONDARY

\* new Set(allContacts.map(c => c.email).filter(Boolean))
ExistingEmails(allContacts) ==
    {allContacts[i].email : i \in DOMAIN allContacts} \ {NULL}
ExistingPhones(allContacts) ==
    {allContacts[i].phoneNumber : i \in DOMAIN allContacts} \ {NULL}

\* Variant of HasNewEmail: the e-mail is compared with the first row alone.
HasNewEmailVsFirst(allContacts, email) ==
    email # NULL /\ (allContacts = <<>> \/ allContacts[1].email # email)

\* Variant of HasNewPhone: a phone number is never new.
HasNewPhoneNever(allContacts, phoneNumber) == FALSE

HasNewEmail(allContacts, email) ==
    email # NULL /\ email \notin ExistingEmails(allContacts)
HasNewPhone(allContacts, phoneNumber) ==
    phoneNumber # NULL /\ phoneNumber \notin ExistingPhones(allContacts)

\* Variant of GapCheck: without a PRIMARY the last row is promoted.
GapCheckPromoteLast(store, allContacts, email, phoneNumber, t) ==
    LET prims == SelectSeq(allContacts, IsPrimary)
        same == [store |-> store, allContacts |-> allContacts]
        link(st, all, primaryId) ==
            LET st2 == Create(st, email, phoneNumber, primaryId, SECONDARY, t)
            IN  [store |-> st2, allContacts |-> Append(all, st2[Len(st2)])]
    IN  IF ~(HasNewEmail(allContacts, email) \/ HasNewPhone(allContacts, phoneNumber))
        THEN same
        ELSE IF prims # <<>>
        THEN link(store, allContacts, Head(prims).id)
        ELSE IF allContacts # <<>>
        THEN LET last == allContacts[Len(allContacts)]
                 promoted == [last EXCEPT !.linkPrecedence = PRIMARY,
                                          !.linkedId = NULL]
             IN  link(Update(store, last.id, PRIMARY, NULL),
                      [allContacts EXCEPT ![Len(allContacts)] = promoted],
                      last.id)
        ELSE same

\* The store and the in-memory allContacts after step 5.
GapCheck(store, allContacts, email, phoneNumber, t) ==
    LET prims == SelectSeq(allContacts, IsPrimary)
        same == [store |-> store, allContacts |-> allContacts]
        link(st, all, primaryId) ==
            LET st2 == Create(st, email, phoneNumber, primaryId, SECONDARY, t)
            IN  [store |-> st2, allContacts |-> Append(all, st2[Len(st2)])]
    IN  IF ~(HasNewEmail(allContacts, email) \/ HasNewPhone(allContacts, phoneNumber))
        THEN same
        ELSE IF prims # <<>>
        THEN link(store, allContacts, Head(prims).id)
        ELSE IF allContacts # <<>>
        THEN LET first == allContacts[1]
                 promoted == [first EXCEPT !.linkPrecedence = PRIMARY,
                                           !.linkedId = NULL]
             IN  link(Update(store, first.id, PRIMARY, NULL),
                      [allContacts EXCEPT ![1] = promoted],
                      first.id)
        ELSE same

\* ------------------------------------------- step 6: multiple primaries

\* Variant of OlderOf: the comparison is reversed.
YoungerOf(oldest, current) ==
    IF current.createdAt > oldest.createdAt THEN current ELSE oldest

\* The reducer of primaryContacts.reduce(...).
OlderOf(oldest, current) ==
    IF current.createdAt < oldest.createdAt THEN current ELSE oldest

RECURSIVE Reduce(_, _)
Reduce(acc, cs) ==
    IF cs = <<>> THEN acc ELSE Reduce(OlderOf(acc, Head(cs)), Tail(cs))

OldestPrimary(primaryContacts) == Reduce(Head(primaryContacts), Tail(primaryContacts))

\* Variant of Demote: the updateMany that re-points the children is left out.
DemoteNoRepoint(store, contact, oldestId) ==
    Update(store, contact.id, SECONDARY, oldestId)

\* One iteration of the demotion loop.
Demote(store, contact, oldestId) ==
    UpdateMany(Update(store, contact.id, SECONDARY, oldestId),
               contact.id, oldestId)

RECURSIVE DemoteAll(_, _, _)
DemoteAll(store, primariesToDemote, oldestId) ==
    IF primariesToDemote = <<>> THEN store
    ELSE DemoteAll(Demote(store, Head(primariesToDemote), oldestId),
                   Tail(primariesToDemote), oldestId)

\* Variant of Merge: several primaries are left as they are.
MergeNothing(store, allContacts) == [store |-> store, reload |-> NULL]

\* The store after step 6, and the id to reload by (NULL: no reload).
Merge(store, allContacts) ==
    LET primaryContacts == SelectSeq(allContacts, IsPrimary)
    IN  IF Len(primaryContacts) > 1
        THEN LET oldestPrimary == OldestPrimary(primaryContacts)
                 primariesToDemote ==
                     SelectSeq(primaryContacts, LAMBDA c : c.id # oldestPrimary.id)
             IN  [store |-> DemoteAll(store, primariesToDemote, oldestPrimary.id),
                  reload |-> oldestPrimary.id]
        ELSE [store |-> store, reload |-> NULL]

\* ----------------------------------------------------- step 7: response

\* Variant of Unique: nothing is removed.
KeepAll(xs) == xs

\* Array.from(new Set(xs)): first occurrences, in order.
RECURSIVE Unique(_)
Unique(xs) ==
    IF xs = <<>> THEN <<>>
    ELSE LET init == Unique(SubSeq(xs, 1, Len(xs) - 1))
             last == xs[Len(xs)]
         IN  IF \E i \in DOMAIN init : init[i] = last THEN init ELSE Append(init, last)

Truthy(xs) == SelectSeq(xs, LAMBDA x : x # NULL)

NoResponse == [status |-> 0]
BadRequest == [status |-> 400]
ServerError == [status |-> 500]
Ok(primaryContactId, emails, phoneNumbers, secondaryContactIds) ==
    [status |-> 200, primaryContactId |-> primaryContactId, emails |-> emails,
     phoneNumbers |-> phoneNumbers, secondaryContactIds |-> secondaryContactIds]

\* Variant of Project: without a PRIMARY the first row is named as primary.
ProjectFirstRow(allContacts) ==
    LET prims == SelectSeq(allContacts, IsPrimary)
        finalPrimary == IF prims = <<>> THEN Head(allContacts) ELSE Head(prims)
        finalSecondaries ==
            SelectSeq(allContacts, LAMBDA c : IsSecondary(c) /\ c.id # finalPrimary.id)
        secEmails == [i \in DOMAIN finalSecondaries |-> finalSecondaries[i].email]
        secPhones == [i \in DOMAIN finalSecondaries |-> finalSecondaries[i].phoneNumber]
    IN  Ok(finalPrimary.id,
           Unique(Truthy(<<finalPrimary.email>> \o secEmails)),
           Unique(Truthy(<<finalPrimary.phoneNumber>> \o secPhones)),
           [i \in DOMAIN finalSecondaries |-> finalSecondaries[i].id])

\* The response built from the final allContacts.
Project(allContacts) ==
    LET prims == SelectSeq(allContacts, IsPrimary)
    IN  IF prims = <<>> THEN ServerError
        ELSE LET finalPrimary == Head(prims)
                 finalSecondaries == SelectSeq(allContacts, IsSecondary)
                 secEmails == [i \in DOMAIN finalSecondaries |-> finalSecondaries[i].email]
                 secPhones == [i \in DOMAIN finalSecondaries |-> finalSecondaries[i].phoneNumber]
             IN  Ok(finalPrimary.id,
                    Unique(Truthy(<<finalPrimary.email>> \o secEmails)),
                    Unique(Truthy(<<finalPrimary.phoneNumber>> \o secPhones)),
                    [i \in DOMAIN finalSecondaries |-> finalSecondaries[i].id])


\* ------------------------------------------------------------ the handler

\* Variant of ValidRequest: the refine is left out.
ValidRequestAlways(email, phoneNumber) == TRUE

\* identifyRequestSchema's final refine: at least one of the two fields.
ValidRequest(email, phoneNumber) == email # NULL \/ phoneNumber # NULL

\* One field of identifyRequestSchema: '' is transformed to undefined.
ParseField(v) == IF v = EMPTY THEN NULL ELSE v

\* identifyRequestSchema.safeParse(req.body).success
ParseSuccess(email, phoneNumber) ==
    /\ email # MALFORMED
    /\ phoneNumber # MALFORMED
    /\ ValidRequest(ParseField(email), ParseField(phoneNumber))

\* Steps 5 and 6 on the reloaded component: the store after the writes, the
\* in-memory allContacts, and the id step 6 reloads by (NULL: no reload).
Resolve(store, allContacts, email, phoneNumber, t) ==
    LET gap == GapCheck(store, allContacts, email, phoneNumber, t)
        merged == Merge(gap.store, gap.allContacts)
    IN  [store |-> merged.store, allContacts |-> gap.allContacts,
         reload |-> merged.reload]

\* Step 2: no match, a new PRIMARY contact and its response.
CreatePrimary(store, email, phoneNumber, t) ==
    LET st2 == Create(store, email, phoneNumber, NULL, PRIMARY, t)
        newContact == st2[Len(st2)]
    IN  [store |-> st2,
         res |-> Ok(newContact.id,
                    Truthy(<<newContact.email>>),
                    Truthy(<<newContact.phoneNumber>>),
                    <<>>)]

\* Steps 1 to 7 for the parsed {email, phoneNumber}, run to the response.
\* stamps: the timestamps the clock can show when the request creates a row.
Identified(email, phoneNumber, stamps) ==
    \E ord \in RowOrders(contacts) :
      LET matching == FindMatching(contacts, ord, email, phoneNumber)
          related == RelatedContactIds(contacts, ord, matching)
          allContacts == FindByIds(contacts, ord, related)
      IN  /\ matchingContacts' = {matching[i].id : i \in DOMAIN matching}
          /\ visited' = related
          /\ IF matching = <<>>
             THEN \E t \in stamps :
                  LET r == CreatePrimary(contacts, email, phoneNumber, t)
                  IN  /\ contacts' = r.store
                      /\ res' = r.res
                      /\ now' = t
             ELSE \E t \in IF \/ HasNewEmail(allContacts, email)
                              \/ HasNewPhone(allContacts, phoneNumber)
                           THEN stamps ELSE {now} :
                  LET r == Resolve(contacts, allContacts, email, phoneNumber, t)
                  IN  /\ contacts' = r.store
                      /\ now' = t
                      /\ IF r.reload = NULL
                         THEN res' = Project(r.allContacts)
                         ELSE \E ord2 \in RowOrders(r.store) :
                                res' = Project(FindComponent(r.store, ord2, r.reload))

\* POST /identify with body {email, phoneNumber}, run to its response.
Identify(email, phoneNumber, stamps) ==
    /\ UNCHANGED calls
    /\ pre' = contacts
    /\ body' = [email |-> email, phoneNumber |-> phoneNumber]
    /\ IF ~ParseSuccess(email, phoneNumber)
       THEN /\ req' = [email |-> NULL, phoneNumber |-> NULL]
            /\ res' = BadRequest
            /\ matchingContacts' = {}
            /\ visited' = {}
            /\ UNCHANGED <<contacts, now>>
       ELSE /\ req' = [email |-> ParseField(email),
                       phoneNumber |-> ParseField(phoneNumber)]
            /\ Identified(ParseField(email), ParseField(phoneNumber), stamps)

\* A row is soft-deleted from outside the handler (deletedAt set).
SoftDelete(id) ==
    /\ id \in Ids(contacts)
    /\ contacts[id].deletedAt = NULL
    /\ Cardinality({i \in Ids(contacts) : contacts[i].deletedAt # NULL}) < MaxDeleted
    /\ contacts' = [contacts EXCEPT ![id].deletedAt = now]
    /\ pre' = contacts
    /\ body' = [email |-> NULL, phoneNumber |-> NULL]
    /\ req' = [email |-> NULL, phoneNumber |-> NULL]
    /\ res' = NoResponse
    /\ matchingContacts' = {}
    /\ visited' = {}
    /\ UNCHANGED <<now, calls>>

\* ------------------------------------- the handler, operation by operation

\* An invocation of identifyController between two awaits.  pc names the
\* store operation it is about to issue; the other fields are the handler's
\* local variables.  failed records that a store operation of it has thrown.
Calls == 1..MaxCalls

Idle ==
    [pc |-> "idle", email |-> NULL, phoneNumber |-> NULL, queue |-> <<>>,
     seen |-> {}, cur |-> NULL, allContacts |-> <<>>, primaryId |-> NULL,
     toDemote |-> <<>>, oldestId |-> NULL, res |-> NoResponse, failed |-> FALSE]

\* res.status(...).json(...): the handler has answered.
Responded(h, response) ==
    [Idle EXCEPT !.pc = "done", !.email = h.email, !.phoneNumber = h.phoneNumber,
                 !.res = response, !.failed = h.failed]

\* The while loop of step 3 up to its next store operation.
RECURSIVE Loop(_)
Loop(h) ==
    IF h.queue = <<>> THEN [h EXCEPT !.pc = "findByIds", !.cur = NULL]
    ELSE LET current == Head(h.queue)
             rest == Tail(h.queue)
         IN  IF current.id \in h.seen THEN Loop([h EXCEPT !.queue = rest])
             ELSE LET h2 == [h EXCEPT !.queue = rest,
                                      !.seen = @ \cup {current.id},
                                      !.cur = current]
                  IN  IF current.linkPrecedence = PRIMARY
                      THEN [h2 EXCEPT !.pc = "findSecondaries"]
                      ELSE IF current.linkedId # NULL /\ current.linkedId \notin h2.seen
                      THEN [h2 EXCEPT !.pc = "findPrimary"]
                      ELSE Loop(h2)

Unseen(h, cs) == SelectSeq(cs, LAMBDA c : c.id \notin h.seen)

\* Step 7 on the final allContacts.
Respond(h) == Responded(h, Project(h.allContacts))

\* Step 6 up to its first store operation.
AfterGapCheck(h) ==
    LET primaryContacts == SelectSeq(h.allContacts, IsPrimary)
    IN  IF Len(primaryContacts) > 1
        THEN LET oldestPrimary == OldestPrimary(primaryContacts)
             IN  [h EXCEPT !.pc = "demote",
                           !.oldestId = oldestPrimary.id,
                           !.toDemote = SelectSeq(primaryContacts,
                                            LAMBDA c : c.id # oldestPrimary.id)]
        ELSE Respond(h)

\* Step 5 up to its first store operation.
BeforeGapCheck(h) ==
    LET prims == SelectSeq(h.allContacts, IsPrimary)
    IN  IF ~(\/ HasNewEmail(h.allContacts, h.email)
             \/ HasNewPhone(h.allContacts, h.phoneNumber))
        THEN AfterGapCheck(h)
        ELSE IF prims # <<>>
        THEN [h EXCEPT !.pc = "createSecondary", !.primaryId = Head(prims).id]
        ELSE IF h.allContacts # <<>>
        THEN [h EXCEPT !.pc = "promote", !.primaryId = h.allContacts[1].id]
        ELSE AfterGapCheck(h)

\* The demotion loop after one iteration, completed or abandoned.
NextDemotion(h) ==
    IF Tail(h.toDemote) = <<>>
    THEN [h EXCEPT !.pc = "reload", !.toDemote = <<>>]
    ELSE [h EXCEPT !.pc = "demote", !.toDemote = Tail(@)]

\* A handler starts on a body that passed validation.
Start(p, email, phoneNumber) ==
    /\ calls[p].pc \in {"idle", "done"}
    /\ \A q \in Calls : q < p => calls[q].pc # "idle"
    /\ ParseSuccess(email, phoneNumber)
    /\ calls' = [calls EXCEPT ![p] = [Idle EXCEPT !.pc = "findMatching",
                                                  !.email = email,
                                                  !.phoneNumber = phoneNumber]]
    /\ pre' = <<>>
    /\ body' = [email |-> NULL, phoneNumber |-> NULL]
    /\ req' = [email |-> NULL, phoneNumber |-> NULL]
    /\ res' = NoResponse
    /\ matchingContacts' = {}
    /\ visited' = {}
    /\ UNCHANGED <<contacts, now>>

History == <<pre, body, req, res, matchingContacts, visited>>

\* Step 1.
StepFindMatching(p) ==
    /\ calls[p].pc = "findMatching"
    /\ \E ord \in RowOrders(contacts) :
         LET h == calls[p]
             matching == FindMatching(contacts, ord, h.email, h.phoneNumber)
         IN  calls' = [calls EXCEPT ![p] =
                          IF matching = <<>> THEN [h EXCEPT !.pc = "createPrimary"]
                          ELSE Loop([h EXCEPT !.queue = matching])]
    /\ UNCHANGED <<contacts, now, History>>

\* Step 2.
StepCreatePrimary(p, stamps) ==
    /\ calls[p].pc = "createPrimary"
    /\ \E t \in stamps :
         LET h == calls[p]
             r == CreatePrimary(contacts, h.email, h.phoneNumber, t)
         IN  /\ contacts' = r.store
             /\ now' = t
             /\ calls' = [calls EXCEPT ![p] = Responded(h, r.res)]
    /\ UNCHANGED History

\* Step 3, current is PRIMARY: its secondaries are queued.
StepFindSecondaries(p) ==
    /\ calls[p].pc = "findSecondaries"
    /\ \E ord \in RowOrders(contacts) :
         LET h == calls[p]
             secondaries == FindChildren(contacts, ord, h.cur.id)
         IN  calls' = [calls EXCEPT ![p] =
                          Loop([h EXCEPT !.queue = @ \o Unseen(h, secondaries)])]
    /\ UNCHANGED <<contacts, now, History>>

\* Step 3, current is SECONDARY: findUnique of its linkedId.
StepFindPrimary(p) ==
    /\ calls[p].pc = "findPrimary"
    /\ LET h == calls[p]
           primary == FindUnique(contacts, h.cur.linkedId)
       IN  calls' = [calls EXCEPT ![p] =
                        IF primary # <<>>
                        THEN [h EXCEPT !.pc = "findSiblings", !.queue = @ \o primary]
                        ELSE Loop(h)]
    /\ UNCHANGED <<contacts, now, History>>

\* Step 3, current is SECONDARY: its siblings are queued.
StepFindSiblings(p) ==
    /\ calls[p].pc = "findSiblings"
    /\ \E ord \in RowOrders(contacts) :
         LET h == calls[p]
             siblingSecondaries == FindChildren(contacts, ord, h.cur.linkedId)
         IN  calls' = [calls EXCEPT ![p] =
                          Loop([h EXCEPT !.queue = @ \o Unseen(h, siblingSecondaries)])]
    /\ UNCHANGED <<contacts, now, History>>

\* Step 4.
StepFindByIds(p) ==
    /\ calls[p].pc = "findByIds"
    /\ \E ord \in RowOrders(contacts) :
         LET h == calls[p]
         IN  calls' = [calls EXCEPT ![p] =
                          BeforeGapCheck([h EXCEPT !.allContacts =
                                              FindByIds(contacts, ord, h.seen)])]
    /\ UNCHANGED <<contacts, now, History>>

\* Step 5, no PRIMARY in allContacts: allContacts[0] is promoted.
StepPromote(p) ==
    /\ calls[p].pc = "promote"
    /\ LET h == calls[p]
       IN  /\ contacts' = Update(contacts, h.primaryId, PRIMARY, NULL)
           /\ calls' = [calls EXCEPT ![p] =
                           [h EXCEPT !.pc = "createSecondary",
                                     !.allContacts[1].linkPrecedence = PRIMARY,
                                     !.allContacts[1].linkedId = NULL]]
    /\ UNCHANGED <<now, History>>

\* Step 5: the new SECONDARY.
StepCreateSecondary(p, stamps) ==
    /\ calls[p].pc = "createSecondary"
    /\ \E t \in stamps :
         LET h == calls[p]
             st2 == Create(contacts, h.email, h.phoneNumber, h.primaryId, SECONDARY, t)
         IN  /\ contacts' = st2
             /\ now' = t
             /\ calls' = [calls EXCEPT ![p] =
                             AfterGapCheck([h EXCEPT !.allContacts =
                                                Append(@, st2[Len(st2)])])]
    /\ UNCHANGED History

\* Step 6: the update of one primary to demote.
StepDemote(p) ==
    /\ calls[p].pc = "demote"
    /\ LET h == calls[p]
       IN  /\ contacts' = Update(contacts, Head(h.toDemote).id, SECONDARY, h.oldestId)
           /\ calls' = [calls EXCEPT ![p] = [h EXCEPT !.pc = "repoint"]]
    /\ UNCHANGED <<now, History>>

\* Step 6: the updateMany that re-points its secondaries.
StepRepoint(p) ==
    /\ calls[p].pc = "repoint"
    /\ LET h == calls[p]
       IN  /\ contacts' = UpdateMany(contacts, Head(h.toDemote).id, h.oldestId)
           /\ calls' = [calls EXCEPT ![p] = NextDemotion(h)]
    /\ UNCHANGED <<now, History>>

\* Step 6: the reload, and step 7.
StepReload(p) ==
    /\ calls[p].pc = "reload"
    /\ \E ord \in RowOrders(contacts) :
         LET h == calls[p]
         IN  calls' = [calls EXCEPT ![p] =
                          Respond([h EXCEPT !.allContacts =
                                      FindComponent(contacts, ord, h.oldestId)])]
    /\ UNCHANGED <<contacts, now, History>>

\* The store operation a handler is about to issue throws.  Inside the try
\* blocks of the traversal and of the demotion loop the error is logged and
\* the loop goes on; anywhere else the outer catch answers 500.
StepFails(p) ==
    /\ calls[p].pc \notin {"idle", "done"}
    /\ ~calls[p].failed
    /\ LET h == [calls[p] EXCEPT !.failed = TRUE]
       IN  calls' = [calls EXCEPT ![p] =
                        CASE h.pc \in {"findPrimary", "findSiblings"} -> Loop(h)
                          [] h.pc \in {"demote", "repoint"} -> NextDemotion(h)
                          [] OTHER -> Responded(h, ServerError)]
    /\ UNCHANGED <<contacts, now, History>>

\* One store operation of handler p.
Step(p, stamps) ==
    \/ StepFindMatching(p)
    \/ StepCreatePrimary(p, stamps)
    \/ StepFindSecondaries(p)
    \/ StepFindPrimary(p)
    \/ StepFindSiblings(p)
    \/ StepFindByIds(p)
    \/ StepPromote(p)
    \/ StepCreateSecondary(p, stamps)
    \/ StepDemote(p)
    \/ StepRepoint(p)
    \/ StepReload(p)

Init ==
    /\ calls = [p \in Calls |-> Idle]
    /\ contacts = <<>>
    /\ now = 0
    /\ pre = <<>>
    /\ body = [email |-> NULL, phoneNumber |-> NULL]
    /\ req = [email |-> NULL, phoneNumber |-> NULL]
    /\ res = NoResponse
    /\ matchingContacts = {}
    /\ visited = {}

\* The e-mail addresses and phone numbers a request can carry: the values
\* are compared for equality only, so a value no row has yet is taken to be
\* the smallest such number.
KnownEmails == {contacts[i].email : i \in Ids(contacts)} \ {NULL}
KnownPhones == {contacts[i].phoneNumber : i \in Ids(contacts)} \ {NULL}
RequestEmails == {e \in Emails : e <= Cardinality(KnownEmails) + 1} \cup {NULL}
RequestPhones == {p \in Phones : p <= Cardinality(KnownPhones) + 1} \cup {NULL}

\* The table holds at most n rows, at most k of them created on the
\* timestamp of an earlier row.
Within(n, k) == Len(contacts) <= n /\ Ties(contacts) <= k

\* A request served after the clock has moved on since the latest creation.
Next ==
    \E email \in RequestEmails, phoneNumber \in RequestPhones :
        Identify(email, phoneNumber, {now + 1}) /\ Within(MaxContacts, 0)'

\* A request that may be served within the millisecond of the latest creation.
NextTie ==
    \E email \in RequestEmails, phoneNumber \in RequestPhones :
        Identify(email, phoneNumber, {now, now + 1} \ {0})
            /\ Within(MaxContacts, MaxTies)'

NextDel ==
    \/ Next
    \/ \E id \in 1..MaxContacts : SoftDelete(id)

\* Sequential requests against a store that starts empty.
Spec == Init /\ [][Next]_vars

\* The same, where rows of consecutive requests can share a createdAt.
SpecTie == Init /\ [][NextTie]_vars

\* Sequential requests, with rows soft-deleted between requests.
SpecDel == Init /\ [][NextDel]_vars

\* Wider stores with a soft-deleted first row.  Of the behaviours with rows
\* soft-deleted between requests, those where every request carries both an
\* e-mail and a phone number and writes to the store, and where the row
\* soft-deleted is row 1.
WideEmails == {e \in 1..MaxWideEmails : e <= Cardinality(KnownEmails) + 1}
WidePhones == {p \in 1..MaxWidePhones : p <= Cardinality(KnownPhones) + 1}

NextOrphan ==
    \/ \E email \in WideEmails, phoneNumber \in WidePhones :
          /\ Identify(email, phoneNumber, {now + 1})
          /\ Within(MaxWideContacts, 0)'
          /\ contacts' # contacts
    \/ SoftDelete(1)

SpecOrphan == Init /\ [][NextOrphan]_vars

\* Request bodies as sent: a field can also be the empty string or a value
\* the schema rejects.
NextBody ==
    \E email \in RequestEmails \cup {EMPTY, MALFORMED},
       phoneNumber \in RequestPhones \cup {EMPTY, MALFORMED} :
        Identify(email, phoneNumber, {now + 1}) /\ Within(MaxContacts, 0)'

SpecBody == Init /\ [][NextBody]_vars

\* No handler has started; every handler has answered.
NoneStarted == \A p \in Calls : calls[p].pc = "idle"
AllDone == \A p \in Calls : calls[p].pc = "done"

\* Requests served one at a time build a store; then MaxCalls requests are
\* served with their store operations interleaved; then requests are served
\* one at a time again.
NextRace ==
    \/ /\ NoneStarted \/ AllDone
       /\ \E email \in RequestEmails, phoneNumber \in RequestPhones :
             Identify(email, phoneNumber, {now + 1})
       /\ Within(MaxRaceContacts, 0)'
    \/ \E p \in Calls :
          \/ \E email \in RequestEmails, phoneNumber \in RequestPhones :
                calls[p].pc = "idle" /\ Start(p, email, phoneNumber)
          \/ Step(p, {now + 1}) /\ Within(MaxRaceContacts, 0)'

SpecRace == Init /\ [][NextRace]_vars

\* Requests served one at a time build a store in which rows can share a
\* createdAt; then MaxCalls requests are served with their store operations
\* interleaved.
NextRaceTie ==
    \/ /\ NoneStarted
       /\ \E email \in RequestEmails, phoneNumber \in RequestPhones :
             Identify(email, phoneNumber, {now, now + 1} \ {0})
       /\ Within(MaxRaceContacts, MaxTies)'
    \/ \E p \in Calls :
          \/ \E email \in RequestEmails, phoneNumber \in RequestPhones :
                calls[p].pc = "idle" /\ Start(p, email, phoneNumber)
          \/ Step(p, {now, now + 1} \ {0}) /\ Within(MaxRaceContacts, MaxTies)'

SpecRaceTie == Init /\ [][NextRaceTie]_vars

\* Requests served one at a time, store operation by store operation, where
\* one store operation of a request can throw.
NextFail ==
    \/ \E email \in RequestEmails, phoneNumber \in RequestPhones :
          Start(1, email, phoneNumber)
    \/ Step(1, {now + 1}) /\ Within(MaxContacts, 0)'
    \/ StepFails(1)

SpecFail == Init /\ [][NextFail]_vars

\* ===================================================== checked properties

Range(xs) == {xs[i] : i \in DOMAIN xs}

LiveIds(store) == {i \in Ids(store) : store[i].deletedAt = NULL}

\* Two live contacts share a non-null e-mail address or phone number.
Joined(store, i, j) ==
    \/ store[i].email # NULL /\ store[i].email = store[j].email
    \/ store[i].phoneNumber # NULL /\ store[i].phoneNumber = store[j].phoneNumber

\* The live contacts transitively joined to those of S.
RECURSIVE JoinedTo(_, _)
JoinedTo(store, S) ==
    LET T == S \cup {j \in LiveIds(store) : \E i \in S : Joined(store, i, j)}
    IN  IF T = S THEN S ELSE JoinedTo(store, T)

\* The id of the contact a row is filed under: itself, or its linkedId.
RootOf(store, i) ==
    IF store[i].linkPrecedence = PRIMARY THEN i ELSE store[i].linkedId

\* The latest step was a request that the handler answered.
Answered == res.status # 0
Succeeded == res.status = 200

\* The latest request ran step 6's demotion: a PRIMARY of before is SECONDARY.
Merged ==
    \E i \in Ids(pre) : pre[i].linkPrecedence = PRIMARY
                        /\ contacts[i].linkPrecedence = SECONDARY

\* C1: after any sequence of completed requests from the empty store, the
\* linkedId of every non-deleted SECONDARY contact is the id of a contact
\* that is PRIMARY (no chain of secondaries).
C1_Flattened ==
    \A i \in LiveIds(contacts) :
        contacts[i].linkPrecedence = SECONDARY =>
            /\ contacts[i].linkedId \in Ids(contacts)
            /\ contacts[contacts[i].linkedId].linkPrecedence = PRIMARY

\* C1 witness: a merge has re-pointed a SECONDARY from the demoted primary
\* to the surviving one.
C1_Witness ==
    /\ Merged
    /\ \E i \in Ids(pre) :
          /\ pre[i].linkPrecedence = SECONDARY
          /\ contacts[i].linkedId # pre[i].linkedId
          /\ contacts[contacts[i].linkedId].linkPrecedence = PRIMARY

\* C2 as stated: after any sequence of completed requests from the empty
\* store, every set of non-deleted contacts transitively joined by a shared
\* e-mail or phone has exactly one PRIMARY, and no contact of the set was
\* created before it.
C2_Original ==
    \A i \in LiveIds(contacts) :
        LET comp == JoinedTo(contacts, {i})
            prims == {j \in comp : contacts[j].linkPrecedence = PRIMARY}
        IN  /\ Cardinality(prims) = 1
            /\ \A p \in prims : \A j \in comp :
                  contacts[p].createdAt <= contacts[j].createdAt

\* Two live contacts of which one is linked to the other.
Linked(store, i, j) == store[i].linkedId = j \/ store[j].linkedId = i

\* The live contacts transitively joined or linked to those of S.
RECURSIVE ConnectedTo(_, _)
ConnectedTo(store, S) ==
    LET T == S \cup {j \in LiveIds(store) :
                        \E i \in S : Joined(store, i, j) \/ Linked(store, i, j)}
    IN  IF T = S THEN S ELSE ConnectedTo(store, T)

\* C2 amended: after any sequence of completed requests from the empty
\* store, every set of non-deleted contacts transitively connected by a
\* shared e-mail, a shared phone or a linkedId reference has exactly one
\* PRIMARY, and no contact of the set was created before it.
C2_OnePrimaryOldest ==
    \A i \in LiveIds(contacts) :
        LET comp == ConnectedTo(contacts, {i})
            prims == {j \in comp : contacts[j].linkPrecedence = PRIMARY}
        IN  /\ Cardinality(prims) = 1
            /\ \A p \in prims : \A j \in comp :
                  contacts[p].createdAt <= contacts[j].createdAt

\* C2 witness: a merge has demoted a primary that shares no e-mail and no
\* phone with any other contact, so that only its linkedId connects it.
C2_Witness ==
    /\ Merged
    /\ \E i \in LiveIds(contacts) :
          /\ contacts[i].linkPrecedence = SECONDARY
          /\ JoinedTo(contacts, {i}) = {i}
          /\ Cardinality(ConnectedTo(contacts, {i})) >= 2

\* The PRIMARY contacts of the components the request's e-mail and phone
\* matched in the store before the request.
EmailRoots ==
    {RootOf(pre, i) : i \in {j \in LiveIds(pre) :
                                req.email # NULL /\ pre[j].email = req.email}}
PhoneRoots ==
    {RootOf(pre, i) : i \in {j \in LiveIds(pre) :
                                req.phoneNumber # NULL
                                /\ pre[j].phoneNumber = req.phoneNumber}}

\* A is the older and B the younger of two distinct primaries, one matched by
\* the request's e-mail and the other by its phone.
MergeCase(A, B) ==
    /\ Answered
    /\ A # B
    /\ pre[A].deletedAt = NULL /\ pre[B].deletedAt = NULL
    /\ \/ A \in EmailRoots /\ B \in PhoneRoots
       \/ B \in EmailRoots /\ A \in PhoneRoots
    /\ pre[A].linkPrecedence = PRIMARY
    /\ pre[B].linkPrecedence = PRIMARY
    /\ pre[A].createdAt < pre[B].createdAt

Has(xs, v) == v = NULL \/ v \in Range(xs)

\* C3: when the request's e-mail matches a contact of one component and its
\* phone a contact of another, with primaries A created before B, then after
\* the request A is PRIMARY, B is SECONDARY under A, every non-deleted
\* contact that was linked to B is linked to A, and the response names A as
\* primary, lists B as secondary and carries the e-mail and phone of both.
C3_MergePrecedence ==
    \A A, B \in Ids(pre) :
        MergeCase(A, B) =>
            /\ contacts[A].linkPrecedence = PRIMARY
            /\ contacts[A].linkedId = NULL
            /\ contacts[B].linkPrecedence = SECONDARY
            /\ contacts[B].linkedId = A
            /\ \A c \in LiveIds(pre) :
                  pre[c].linkedId = B => contacts[c].linkedId = A
            /\ Succeeded
            /\ res.primaryContactId = A
            /\ B \in Range(res.secondaryContactIds)
            /\ Has(res.emails, pre[A].email) /\ Has(res.emails, pre[B].email)
            /\ Has(res.phoneNumbers, pre[A].phoneNumber)
            /\ Has(res.phoneNumbers, pre[B].phoneNumber)

\* C3 witness: such a merge where B had a SECONDARY of its own.
C3_Witness ==
    \E A, B \in Ids(pre) :
        /\ MergeCase(A, B)
        /\ \E c \in Ids(pre) : pre[c].linkedId = B
        /\ contacts[B].linkedId = A


\* The request matched no live contact of the store before it.
NoMatch ==
    \A i \in LiveIds(pre) :
        /\ req.email = NULL \/ pre[i].email # req.email
        /\ req.phoneNumber = NULL \/ pre[i].phoneNumber # req.phoneNumber

ValidReq == Answered /\ ValidRequest(req.email, req.phoneNumber)

Singleton(v) == IF v = NULL THEN <<>> ELSE <<v>>

\* C4: when no non-deleted contact has the request's e-mail or phone, the
\* request creates exactly one contact, PRIMARY with linkedId null and the
\* request's e-mail and phone, changes no other contact, and answers with
\* the new id, the supplied values alone and no secondary ids.
C4_NewIdentity ==
    (ValidReq /\ NoMatch) =>
        /\ Len(contacts) = Len(pre) + 1
        /\ \A i \in Ids(pre) : contacts[i] = pre[i]
        /\ LET new == contacts[Len(contacts)]
           IN  /\ new.id = Len(contacts)
               /\ new.linkPrecedence = PRIMARY
               /\ new.linkedId = NULL
               /\ new.email = req.email
               /\ new.phoneNumber = req.phoneNumber
               /\ new.deletedAt = NULL
        /\ res = Ok(Len(contacts), Singleton(req.email),
                    Singleton(req.phoneNumber), <<>>)

\* C4 witness: a new PRIMARY was created although a soft-deleted contact
\* carries the request's e-mail.
C4_Witness ==
    /\ ValidReq /\ NoMatch
    /\ Len(contacts) = Len(pre) + 1
    /\ \E i \in Ids(pre) : pre[i].deletedAt # NULL /\ pre[i].email = req.email
                           /\ req.email # NULL

\* The rows of the component the request resolved, in the store before it.
PreComponent == {i \in Ids(pre) : i \in visited}

PreEmails == {pre[i].email : i \in PreComponent} \ {NULL}
PrePhones == {pre[i].phoneNumber : i \in PreComponent} \ {NULL}

NewEmail == req.email # NULL /\ req.email \notin PreEmails
NewPhone == req.phoneNumber # NULL /\ req.phoneNumber \notin PrePhones

\* The request matched a component and brings a value the component lacks.
GapCase == ValidReq /\ ~NoMatch /\ (NewEmail \/ NewPhone)

\* The request matched a component that has every value the request brings.
CoveredCase == ValidReq /\ ~NoMatch /\ ~NewEmail /\ ~NewPhone

\* C5: when the request matches a component and supplies an e-mail or phone
\* no contact of the component has, exactly one contact is created; it is
\* SECONDARY, carries the request's e-mail and phone and is linked to the
\* component's PRIMARY; the response names that PRIMARY, lists the new id
\* as secondary and contains the new value.
C5_GapFill ==
    GapCase =>
        /\ Len(contacts) = Len(pre) + 1
        /\ LET new == contacts[Len(contacts)]
               prims == {i \in PreComponent : pre[i].linkPrecedence = PRIMARY}
           IN  /\ new.linkPrecedence = SECONDARY
               /\ new.email = req.email
               /\ new.phoneNumber = req.phoneNumber
               /\ Cardinality(prims) = 1
               /\ new.linkedId \in prims
               /\ contacts[new.linkedId].linkPrecedence = PRIMARY
               /\ Succeeded
               /\ res.primaryContactId = new.linkedId
               /\ new.id \in Range(res.secondaryContactIds)
               /\ NewEmail => req.email \in Range(res.emails)
               /\ NewPhone => req.phoneNumber \in Range(res.phoneNumbers)

\* C5 witness: a SECONDARY was created for a new phone under a component
\* that already had a SECONDARY.
C5_Witness ==
    /\ GapCase
    /\ NewPhone
    /\ Len(contacts) = Len(pre) + 1
    /\ contacts[Len(contacts)].linkPrecedence = SECONDARY
    /\ \E i \in PreComponent : pre[i].linkPrecedence = SECONDARY

\* C6: when the request matches and every value it supplies is already held
\* by a contact of the resolved component, no contact is created, also when
\* the request joins two components and they are merged.
C6_NoRowWhenCovered ==
    CoveredCase => Len(contacts) = Len(pre)

\* C6 witness: a covered request that merged two components.
C6_Witness ==
    CoveredCase /\ Merged /\ Len(contacts) = Len(pre)

\* The ids a successful response names.
ResponseIds == {res.primaryContactId} \cup Range(res.secondaryContactIds)

\* The live contacts that have the request's e-mail or phone.
Holders(store) ==
    {i \in LiveIds(store) :
        \/ req.email # NULL /\ store[i].email = req.email
        \/ req.phoneNumber # NULL /\ store[i].phoneNumber = req.phoneNumber}

\* C7 as stated: the ids of a successful response are exactly the
\* non-deleted contacts that, in the store after the request, are
\* transitively joined by shared e-mail or phone values to the request's
\* e-mail or phone.
C7_Original ==
    Succeeded => ResponseIds = JoinedTo(contacts, Holders(contacts))

\* C7 amended: the ids of a successful response are exactly the non-deleted
\* contacts that, in the store after the request, are transitively connected
\* by shared e-mail or phone values or by linkedId references to the
\* request's e-mail or phone.
C7_Complete ==
    Succeeded => ResponseIds = ConnectedTo(contacts, Holders(contacts))

\* C7 witness: a response naming a contact that no chain of shared values
\* joins to the request.
C7_Witness ==
    /\ Succeeded
    /\ Cardinality(ResponseIds) >= 3
    /\ ResponseIds # JoinedTo(contacts, Holders(contacts))

\* C8: a successful response's emails contain the request's e-mail and its
\* phoneNumbers the request's phone, whenever the request supplies them.
\* It holds while no row is soft-deleted.  When the primary of three
\* secondaries is soft-deleted and two of them have since been promoted, a
\* request matching all three merges the two and step 6 reloads by the
\* survivor's id, which leaves out the third, still linked to the deleted
\* row, together with the value only it holds.
C8_ContainsObservation ==
    Succeeded =>
        /\ req.email # NULL => req.email \in Range(res.emails)
        /\ req.phoneNumber # NULL => req.phoneNumber \in Range(res.phoneNumbers)

NoDuplicates(xs) == \A i, j \in DOMAIN xs : xs[i] = xs[j] => i = j

\* C9: in a successful response no e-mail and no phone number occurs twice.
C9_Deduplicated ==
    Succeeded => NoDuplicates(res.emails) /\ NoDuplicates(res.phoneNumbers)

\* C9 witness: two contacts named by the response share an e-mail.
C9_Witness ==
    /\ Succeeded
    /\ \E i, j \in ResponseIds :
          i # j /\ contacts[i].email # NULL /\ contacts[i].email = contacts[j].email

\* The rows soft-deleted before the latest request.
DeletedBefore == {i \in Ids(pre) : pre[i].deletedAt # NULL}

\* C10: a soft-deleted contact is not returned by the seed query, is not
\* added to the visited set, is not modified by the request, and is not
\* named by the response.
C10_SoftDeleteExcluded ==
    Answered =>
        \A i \in DeletedBefore :
            /\ i \notin matchingContacts
            /\ i \notin visited
            /\ contacts[i] = pre[i]
            /\ Succeeded => i \notin ResponseIds

\* C10 witness: a merge demoted the primary a soft-deleted SECONDARY is
\* linked to, and the request carried a value of that deleted row.
C10_Witness ==
    /\ Succeeded /\ Merged
    /\ \E i \in DeletedBefore :
          /\ pre[i].linkedId # NULL
          /\ contacts[pre[i].linkedId].linkPrecedence = SECONDARY
          /\ \/ pre[i].email # NULL /\ pre[i].email = req.email
             \/ pre[i].phoneNumber # NULL /\ pre[i].phoneNumber = req.phoneNumber

\* The latest request's body has neither an e-mail nor a phone number: each
\* field is absent or the empty string.
BothAbsent ==
    /\ Answered
    /\ body.email \in {NULL, EMPTY}
    /\ body.phoneNumber \in {NULL, EMPTY}

\* C11: a request in which e-mail and phone number are both absent or empty
\* is answered with an error, names no identity, runs no store operation
\* and leaves the store unchanged.
C11_RejectedUntouched ==
    BothAbsent =>
        /\ res = BadRequest
        /\ contacts = pre
        /\ matchingContacts = {}
        /\ visited = {}

\* C11 witness: a body of two empty strings was rejected while the store
\* holds contacts.
C11_Witness ==
    /\ BothAbsent
    /\ body.email = EMPTY /\ body.phoneNumber = EMPTY
    /\ res.status = 400
    /\ Len(contacts) >= 2

\* The PRIMARY contacts of the component the request resolved.
PrePrimaries == {i \in PreComponent : pre[i].linkPrecedence = PRIMARY}

\* The contact of S created first, the smallest id among equal createdAt.
EarliestSmallestId(S) ==
    CHOOSE i \in S :
        \A j \in S : \/ pre[i].createdAt < pre[j].createdAt
                      \/ (pre[i].createdAt = pre[j].createdAt /\ i <= j)

\* C15: when the resolved component has more than one PRIMARY, the survivor
\* is the PRIMARY created first, and among several PRIMARY contacts created
\* on that same earliest timestamp the one with the smallest id.
\* The reducer keeps the first of the rows with the earliest createdAt in
\* the order the query returned them, and the query sorts by createdAt
\* alone: with two PRIMARY contacts of one createdAt either can survive.
C15_SurvivorSelection ==
    (Answered /\ Cardinality(PrePrimaries) > 1) =>
        LET survivor == EarliestSmallestId(PrePrimaries)
        IN  /\ contacts[survivor].linkPrecedence = PRIMARY
            /\ \A i \in PrePrimaries \ {survivor} :
                  contacts[i].linkPrecedence = SECONDARY
            /\ Succeeded /\ res.primaryContactId = survivor

\* The SECONDARY contacts the traversal visited whose linkedId is the id of
\* a soft-deleted row.
Orphans ==
    {i \in PreComponent : /\ pre[i].linkPrecedence = SECONDARY
                          /\ pre[pre[i].linkedId].deletedAt # NULL}

\* C16: when the traversal visits a SECONDARY whose linkedId does not resolve
\* to a non-deleted contact, the edge is not followed and the request is
\* answered successfully, also when the request matches such contacts alone
\* and brings no new value.
\* The edge is never followed.  A request that matches orphaned secondaries
\* alone and brings no new value skips step 5, reaches step 7 with no
\* PRIMARY in allContacts and is answered 500.
C16_DanglingNonFatal ==
    (Answered /\ Orphans # {}) =>
        /\ \A i \in Orphans : pre[i].linkedId \notin visited
        /\ Succeeded

\* The ids of the rows the latest request created.
Created == {i \in Ids(contacts) : i > Len(pre)}

\* C17: when the component projected in step 7 (the rows visited and the row
\* created, no merge having reloaded them) has no PRIMARY contact, the
\* request is answered with a failure; a successful response never names as
\* primaryContactId a contact that is not PRIMARY.
C17_NoPrimaryFails ==
    /\ (ValidReq /\ visited # {}
          /\ \A i \in visited \cup Created : contacts[i].linkPrecedence # PRIMARY)
        => res = ServerError
    /\ Succeeded =>
          /\ res.primaryContactId \in LiveIds(contacts)
          /\ contacts[res.primaryContactId].linkPrecedence = PRIMARY

\* C17 witness: a request that matched contacts was answered 500 and left
\* the store as it was.
C17_Witness ==
    /\ ValidReq /\ visited # {}
    /\ res = ServerError
    /\ contacts = pre

\* The request brought a new value to a component without a PRIMARY.
PromotionCase ==
    /\ ValidReq /\ visited # {}
    /\ NewEmail \/ NewPhone
    /\ PrePrimaries = {}

\* C18: when step 5 finds a new value and the component has no PRIMARY, the
\* earliest-created contact of the component is made PRIMARY with linkedId
\* null, and the SECONDARY created for the request is linked to it.
C18_DefensivePromotion ==
    PromotionCase =>
        /\ Len(contacts) = Len(pre) + 1
        /\ LET new == contacts[Len(contacts)]
               promoted == new.linkedId
           IN  /\ new.linkPrecedence = SECONDARY
               /\ promoted \in PreComponent
               /\ \A j \in PreComponent :
                     pre[promoted].createdAt <= pre[j].createdAt
               /\ pre[promoted].linkPrecedence = SECONDARY
               /\ contacts[promoted].linkPrecedence = PRIMARY
               /\ contacts[promoted].linkedId = NULL
               /\ \A j \in PreComponent \ {promoted} : contacts[j] = pre[j]

\* C18 witness: a promotion in a component of two orphaned secondaries.
C18_Witness ==
    /\ PromotionCase
    /\ Cardinality(PreComponent) >= 2
    /\ Len(contacts) = Len(pre) + 1
    /\ contacts[contacts[Len(contacts)].linkedId].linkPrecedence = PRIMARY

\* The position of the first occurrence of v in xs.
FirstPos(xs, v) == CHOOSE i \in DOMAIN xs : xs[i] = v /\ \A j \in 1..(i - 1) : xs[j] # v

\* ys lists the non-null values of xs once each, by first occurrence.
FirstOccurrences(ys, xs) ==
    /\ Range(ys) = Range(xs) \ {NULL}
    /\ \A i, j \in DOMAIN ys : i < j => FirstPos(xs, ys[i]) < FirstPos(xs, ys[j])

\* C19: in a successful response the primary's e-mail and phone, when it has
\* them, come first in emails and phoneNumbers; the other values follow in
\* the order of their first occurrence among the secondaries taken by
\* ascending createdAt; secondaryContactIds is ascending in createdAt.
C19_ResponseOrder ==
    Succeeded =>
        LET primary == contacts[res.primaryContactId]
            ids == res.secondaryContactIds
            emailsInOrder == <<primary.email>> \o [i \in DOMAIN ids |-> contacts[ids[i]].email]
            phonesInOrder ==
                <<primary.phoneNumber>> \o [i \in DOMAIN ids |-> contacts[ids[i]].phoneNumber]
        IN  /\ primary.email # NULL => res.emails[1] = primary.email
            /\ primary.phoneNumber # NULL => res.phoneNumbers[1] = primary.phoneNumber
            /\ \A i, j \in DOMAIN ids :
                  i < j => contacts[ids[i]].createdAt <= contacts[ids[j]].createdAt
            /\ FirstOccurrences(res.emails, emailsInOrder)
            /\ FirstOccurrences(res.phoneNumbers, phonesInOrder)

\* C19 witness: a response with two secondaries and two e-mails, the second
\* e-mail held by the later secondary alone.
C19_Witness ==
    /\ Succeeded
    /\ Len(res.secondaryContactIds) >= 2
    /\ Len(res.emails) >= 2
    /\ contacts[res.primaryContactId].email # NULL
    /\ contacts[res.secondaryContactIds[1]].email = contacts[res.primaryContactId].email

\* The PRIMARY contacts the latest request demoted.
Demoted ==
    {i \in Ids(pre) : /\ pre[i].linkPrecedence = PRIMARY
                      /\ contacts[i].linkPrecedence = SECONDARY}

\* No contact is removed, and id, e-mail, phone, createdAt and deletedAt of
\* the existing contacts are as before the request.
Kept ==
    /\ Len(contacts) >= Len(pre)
    /\ \A i \in Ids(pre) :
          /\ contacts[i].id = pre[i].id
          /\ contacts[i].email = pre[i].email
          /\ contacts[i].phoneNumber = pre[i].phoneNumber
          /\ contacts[i].createdAt = pre[i].createdAt
          /\ contacts[i].deletedAt = pre[i].deletedAt

\* The SECONDARY that step 5 promotes: the earliest-created contact of a
\* resolved component without a PRIMARY, when the request brings a new value.
PromotedByGapCheck(i) ==
    /\ PromotionCase
    /\ i \in PreComponent
    /\ \A j \in PreComponent : pre[i].createdAt <= pre[j].createdAt

\* C20 as stated: a request removes no contact and leaves id, e-mail, phone,
\* createdAt and deletedAt of every existing contact alone; it changes
\* linkPrecedence and linkedId only of PRIMARY contacts of the resolved
\* component and of contacts linked to a PRIMARY it demotes.
C20_Original ==
    Answered =>
        /\ Kept
        /\ \A i \in Ids(pre) :
              contacts[i] # pre[i] =>
                  \/ i \in PrePrimaries
                  \/ pre[i].linkedId \in Demoted

\* C20 amended: the same, where the contacts changed can also be the
\* SECONDARY that step 5 promotes in a component without a PRIMARY.
C20_Frame ==
    Answered =>
        /\ Kept
        /\ \A i \in Ids(pre) :
              contacts[i] # pre[i] =>
                  \/ i \in PrePrimaries
                  \/ pre[i].linkedId \in Demoted
                  \/ PromotedByGapCheck(i)

\* C20 witness: step 5 promoted an orphaned SECONDARY, and the row it was
\* linked to stayed as it was.
C20_Witness ==
    /\ Answered
    /\ \E i \in Ids(pre) :
          /\ PromotedByGapCheck(i)
          /\ pre[i].linkPrecedence = SECONDARY
          /\ contacts[i].linkPrecedence = PRIMARY
          /\ contacts[pre[i].linkedId] = pre[pre[i].linkedId]

\* C12: when a store operation of a request throws, the request is answered
\* with a failure and never with a consolidated identity.
\* The seed query, the findMany of a PRIMARY's secondaries, steps 2, 4 and 5
\* and the reload propagate to the outer catch.  A throw of findUnique or of
\* the sibling findMany in the traversal, or of update or updateMany in the
\* demotion loop, is caught and logged inside the loop, and the request
\* goes on to a 200 response.
C12_FailurePropagates ==
    \A p \in Calls :
        (calls[p].pc = "done" /\ calls[p].failed) => calls[p].res = ServerError

\* C14: once two requests whose store operations interleave have both been
\* answered, the linkedId of every non-deleted SECONDARY contact is the id
\* of a contact that is PRIMARY.
\* A request that read its component before another request's demotion and
\* creates its SECONDARY after it links the new row to the demoted contact.
C14_FlattenedAfterRace ==
    (AllDone /\ res = NoResponse) =>
        \A i \in LiveIds(contacts) :
            contacts[i].linkPrecedence = SECONDARY =>
                contacts[contacts[i].linkedId].linkPrecedence = PRIMARY

\* Contacts a and b are the PRIMARY contacts that the two interleaved
\* requests each created for one and the same observation, a before b.
Raced(a, b) ==
    /\ AllDone
    /\ calls[1].email = calls[2].email
    /\ calls[1].phoneNumber = calls[2].phoneNumber
    /\ \A p \in Calls : calls[p].res.status = 200
                         /\ calls[p].res.secondaryContactIds = <<>>
    /\ {a, b} = {calls[p].res.primaryContactId : p \in Calls}
    /\ a # b
    /\ \A i \in {a, b} : /\ contacts[i].email = calls[1].email
                          /\ contacts[i].phoneNumber = calls[1].phoneNumber
    /\ contacts[a].createdAt < contacts[b].createdAt

\* The latest request, run alone, matched both contacts of the race.
MatchedBoth(a, b) == ValidReq /\ {a, b} \subseteq matchingContacts

\* C13 as stated: after two interleaved requests for the same new
\* observation have each created a PRIMARY, a later request run alone whose
\* seed query returns both leaves the older PRIMARY and the other SECONDARY
\* with linkedId the older one's id.
C13_Original ==
    \A a, b \in Ids(contacts) :
        (Raced(a, b) /\ MatchedBoth(a, b)) =>
            /\ contacts[a].linkPrecedence = PRIMARY
            /\ contacts[b].linkPrecedence = SECONDARY
            /\ contacts[b].linkedId = a

\* C13 amended: the same for a later request that matches no component with
\* a PRIMARY older than both; one that does leaves both SECONDARY, linked to
\* that oldest PRIMARY.
C13_Reconciled ==
    \A a, b \in Ids(contacts) :
        (Raced(a, b) /\ MatchedBoth(a, b)) =>
            LET oldest == EarliestSmallestId(PrePrimaries)
            IN  /\ (\A i \in PrePrimaries : pre[a].createdAt <= pre[i].createdAt)
                    => oldest = a
                /\ contacts[oldest].linkPrecedence = PRIMARY
                /\ \A i \in {a, b} \ {oldest} :
                      /\ contacts[i].linkPrecedence = SECONDARY
                      /\ contacts[i].linkedId = oldest

\* C13 witness: the two requests each created a PRIMARY, and a later request
\* demoted the younger under the older.
C13_Witness ==
    \E a, b \in Ids(pre) :
        /\ Raced(a, b) /\ MatchedBoth(a, b)
        /\ pre[a].linkPrecedence = PRIMARY /\ pre[b].linkPrecedence = PRIMARY
        /\ contacts[a].linkPrecedence = PRIMARY
        /\ contacts[b].linkedId = a

\* C21: in every state of the store, also between the store operations of
\* interleaved requests, a contact is PRIMARY exactly when its linkedId is
\* null, and no contact's linkedId is its own id.
\* Two PRIMARY contacts of one createdAt can each be taken for the oldest by
\* one of two interleaved requests; each is demoted under the other, and
\* the updateMany of one request then re-points a contact to itself.
C21_LinkConsistent ==
    \A i \in Ids(contacts) :
        /\ contacts[i].linkPrecedence = PRIMARY <=> contacts[i].linkedId = NULL
        /\ contacts[i].linkedId # i

\* The step is a request with the body of the request answered just before.
Repeated == Answered /\ res'.status # 0 /\ body' = body

\* C22: a request repeated immediately leaves the store as the first request
\* left it and is answered as the first was, lists in the same order.
\* The store is left alone.  The queries sort by createdAt alone, so the
\* second response can list two secondaries of one createdAt in the other
\* order.
C22_Idempotent ==
    [][Repeated => (contacts' = contacts /\ res' = res)]_vars

=============================================================================
